---------------------------- MODULE Spec2Model ----------------------------
(***************************************************************************)
(* A model of server/smtp-verifier.ts: the SMTPVerifier class.             *)
(*                                                                         *)
(* verifyEmail is an async function; its suspension points (the MX lookup, *)
(* the retry sleep, the SMTP handshake promise) are the values of pc.  One *)
(* handshake is an event-driven state machine on one socket: the socket's  *)
(* connect, data, timeout, error and close events are the actions of the   *)
(* model, each running the whole handler the source registers for it.      *)
(*                                                                         *)
(* Text is a sequence of one-character strings, so that the reply parser   *)
(* can be modelled as the source computes it (split, trim, regular         *)
(* expression, parseInt, join, toLowerCase, includes).                     *)
(*                                                                         *)
(* time_taken_ms (wall-clock time) is not modelled: no field of a result   *)
(* other than time_taken_ms depends on Date.now().                         *)
(***************************************************************************)
EXTENDS Integers, Sequences, FiniteSets, TLC

(***************************************************************************)
(* Program constants                                                       *)
(***************************************************************************)
MAX_RETRIES == 3

fromEmail == "verify@cleansignups.com"

HeloName == "cleansignups.com"

\* const RETRY_DELAYS = [1000, 3000, 10000]
RETRY_DELAYS == <<1000, 3000, 10000>>

(***************************************************************************)
(* Bounds of the model                                                     *)
(***************************************************************************)
\* The largest number of MX records a DNS answer holds.
MaxMX == 2

Null == [null |-> TRUE]

(***************************************************************************)
(* Text helpers (JavaScript string operations on sequences of characters)  *)
(***************************************************************************)
CR == "\r"

LF == "\n"

Digits == {"0", "1", "2", "3", "4", "5", "6", "7", "8", "9"}

\* JavaScript's white space, as far as String.prototype.trim is concerned.
WhiteSpace == {" ", "\t", CR, LF}

\* The characters the regular expression atom "." does not match.
LineTerminators == {CR, LF}

DigitVal(c) ==
  CASE c = "0" -> 0 [] c = "1" -> 1 [] c = "2" -> 2 [] c = "3" -> 3
    [] c = "4" -> 4 [] c = "5" -> 5 [] c = "6" -> 6 [] c = "7" -> 7
    [] c = "8" -> 8 [] c = "9" -> 9

DigitChar(d) ==
  CASE d = 0 -> "0" [] d = 1 -> "1" [] d = 2 -> "2" [] d = 3 -> "3"
    [] d = 4 -> "4" [] d = 5 -> "5" [] d = 6 -> "6" [] d = 7 -> "7"
    [] d = 8 -> "8" [] d = 9 -> "9"

\* Number to string, as a template literal `${code}` prints a non-negative integer.
RECURSIVE NumToStr(_)
NumToStr(n) ==
  IF n < 10 THEN <<DigitChar(n)>>
  ELSE NumToStr(n \div 10) \o <<DigitChar(n % 10)>>

\* String.prototype.toLowerCase on one character (ASCII letters).
LowerChar(c) ==
  CASE c = "A" -> "a" [] c = "B" -> "b" [] c = "C" -> "c" [] c = "D" -> "d"
    [] c = "E" -> "e" [] c = "F" -> "f" [] c = "G" -> "g" [] c = "H" -> "h"
    [] c = "I" -> "i" [] c = "J" -> "j" [] c = "K" -> "k" [] c = "L" -> "l"
    [] c = "M" -> "m" [] c = "N" -> "n" [] c = "O" -> "o" [] c = "P" -> "p"
    [] c = "Q" -> "q" [] c = "R" -> "r" [] c = "S" -> "s" [] c = "T" -> "t"
    [] c = "U" -> "u" [] c = "V" -> "v" [] c = "W" -> "w" [] c = "X" -> "x"
    [] c = "Y" -> "y" [] c = "Z" -> "z" [] OTHER -> c

ToLowerCase(s) == [i \in 1..Len(s) |-> LowerChar(s[i])]

\* s.includes(w)
Includes(s, w) ==
  \E i \in 0..(Len(s) - Len(w)) : \A j \in 1..Len(w) : s[i + j] = w[j]

GREYLIST == <<"g", "r", "e", "y", "l", "i", "s", "t">>

\* s.split("\r\n")
RECURSIVE SplitCRLF(_)
SplitCRLF(s) ==
  LET hits == {i \in 1..(Len(s) - 1) : s[i] = CR /\ s[i + 1] = LF}
  IN  IF hits = {} THEN <<s>>
      ELSE LET i == CHOOSE k \in hits : \A m \in hits : k <= m
           IN  <<SubSeq(s, 1, i - 1)>> \o SplitCRLF(SubSeq(s, i + 2, Len(s)))

\* l.trim() is the empty string
IsBlank(l) == \A i \in 1..Len(l) : l[i] \in WhiteSpace

\* lines.filter(l => l.trim())
NonBlank(lines) == SelectSeq(lines, LAMBDA l : ~IsBlank(l))

\* line.match(/^(\d{3})([ -])(.*)/) is not null
MatchesReplyLine(line) ==
  /\ Len(line) >= 4
  /\ line[1] \in Digits /\ line[2] \in Digits /\ line[3] \in Digits
  /\ line[4] \in {" ", "-"}

\* The group (.*) that starts at position `from`: the longest run without a
\* line terminator.
DotStar(line, from) ==
  LET stops == {i \in from..Len(line) : line[i] \in LineTerminators}
      last  == IF stops = {} THEN Len(line)
               ELSE (CHOOSE k \in stops : \A m \in stops : k <= m) - 1
  IN  SubSeq(line, from, last)

\* parseInt(match[1]) of three decimal digits
ParseInt3(line) ==
  100 * DigitVal(line[1]) + 10 * DigitVal(line[2]) + DigitVal(line[3])

\* parts.join(" ")
RECURSIVE JoinSpace(_)
JoinSpace(parts) ==
  IF Len(parts) = 0 THEN <<>>
  ELSE IF Len(parts) = 1 THEN parts[1]
  ELSE parts[1] \o <<" ">> \o JoinSpace(Tail(parts))


(***************************************************************************)
(* parseSmtpResponse: the reply held by a buffer, or Null                  *)
(***************************************************************************)
\* Every line contributes all of itself, its code included.
LineTextWhole(line) == line

\* The text a line contributes to the message: the group after the
\* separator when the line matches /^\d{3}[ -](.*)/, the line itself otherwise.
LineText(line) == IF MatchesReplyLine(line) THEN DotStar(line, 5) ELSE line

parseSmtpResponse(buffer) ==
  LET lines == NonBlank(SplitCRLF(buffer))
  IN  IF Len(lines) = 0 THEN Null
      ELSE LET lastLine == lines[Len(lines)]
           IN  IF ~MatchesReplyLine(lastLine) THEN Null
               ELSE IF lastLine[4] # " " THEN Null
               ELSE [code     |-> ParseInt3(lastLine),
                     complete |-> TRUE,
                     message  |-> JoinSpace([i \in 1..Len(lines) |-> LineText(lines[i])])]

(***************************************************************************)
(* Results                                                                 *)
(***************************************************************************)
\* A reason or an error message: a fixed text followed by an interpolated one.
Msg(text, detail) == [text |-> text, detail |-> detail]

\* createResult, without time_taken_ms.
createResult(email, status, smtp_code, mx_server, attempts, is_catch_all, is_temporary_error, reason) ==
  [email              |-> email,
   status             |-> status,
   smtp_code          |-> smtp_code,
   mx_server          |-> mx_server,
   attempts           |-> attempts,
   is_catch_all       |-> is_catch_all,
   is_temporary_error |-> is_temporary_error,
   reason             |-> reason]

VerificationStatus ==
  {"valid", "invalid", "unknown", "catch_all", "retry_later", "blocked", "greylisted"}

(***************************************************************************)
(* The classification of the reply to RCPT TO (processResponse, RCPT_TO)   *)
(***************************************************************************)
Verdict(status, isCatchAll, isTemporary, reason) ==
  [status |-> status, isCatchAll |-> isCatchAll, isTemporary |-> isTemporary,
   reason |-> reason]

Rcpt251(message) ==
  Verdict("valid", FALSE, FALSE, Msg("User not local but will forward", <<>>))

Rcpt252NoFlag(message) ==
  Verdict("catch_all", FALSE, FALSE, Msg("Cannot verify user, but will accept message", <<>>))

Rcpt252AsValid(message) ==
  Verdict("valid", TRUE, FALSE, Msg("Cannot verify user, but will accept message", <<>>))

Rcpt252(message) ==
  Verdict("catch_all", TRUE, FALSE, Msg("Cannot verify user, but will accept message", <<>>))

RcptGreylistedNotTemporary(message) ==
  Verdict("greylisted", FALSE, FALSE, Msg("Greylisted: ", message))

RcptGreylisted(message) ==
  Verdict("greylisted", FALSE, TRUE, Msg("Greylisted: ", message))

\* message.toLowerCase().includes("greylist")
MentionsGreylist(message) == Includes(ToLowerCase(message), GREYLIST)

IsMailboxRejectedCodeWith450(code) == code \in {450, 551, 552, 553, 554}

\* code === 550 || code === 551 || code === 552 || code === 553 || code === 554
IsMailboxRejectedCode(code) == code \in {550, 551, 552, 553, 554}

\* The keyword test placed before the branches for 450, 451, 452 and 421.
ClassifyRcptGreylistFirst(code, message) ==
  IF code = 250 THEN Verdict("valid", FALSE, FALSE, Msg("Mailbox exists", <<>>))
  ELSE IF code = 251 THEN Rcpt251(message)
  ELSE IF code = 252 THEN Rcpt252(message)
  ELSE IF IsMailboxRejectedCode(code)
    THEN Verdict("invalid", FALSE, FALSE, Msg("Mailbox rejected: ", message))
  ELSE IF MentionsGreylist(message) THEN RcptGreylisted(message)
  ELSE IF code >= 500
    THEN Verdict("invalid", FALSE, FALSE, Msg("Permanent error: ", message))
  ELSE IF code >= 400
    THEN Verdict("retry_later", FALSE, TRUE, Msg("Temporary error: ", message))
  ELSE Verdict("unknown", FALSE, FALSE,
               Msg("Unknown SMTP response: ", NumToStr(code) \o <<" ">> \o message))

ClassifyRcpt(code, message) ==
  IF code = 250 THEN Verdict("valid", FALSE, FALSE, Msg("Mailbox exists", <<>>))
  ELSE IF code = 251 THEN Rcpt251(message)
  ELSE IF code = 252 THEN Rcpt252(message)
  ELSE IF IsMailboxRejectedCode(code)
    THEN Verdict("invalid", FALSE, FALSE, Msg("Mailbox rejected: ", message))
  ELSE IF code = 450 \/ code = 451 \/ code = 452
    THEN Verdict("retry_later", FALSE, TRUE, Msg("Temporary error: ", message))
  ELSE IF code = 421
    THEN Verdict("retry_later", FALSE, TRUE, Msg("Server busy: ", message))
  ELSE IF MentionsGreylist(message) THEN RcptGreylisted(message)
  ELSE IF code >= 500
    THEN Verdict("invalid", FALSE, FALSE, Msg("Permanent error: ", message))
  ELSE IF code >= 400
    THEN Verdict("retry_later", FALSE, TRUE, Msg("Temporary error: ", message))
  ELSE Verdict("unknown", FALSE, FALSE,
               Msg("Unknown SMTP response: ", NumToStr(code) \o <<" ">> \o message))

(***************************************************************************)
(* processResponse: what one complete reply does to a session              *)
(***************************************************************************)
Command(verb, arg) == [verb |-> verb, arg |-> arg]

\* A reply that lets the dialogue go on: the next step and the command written.
Advance(step, cmd) == [done |-> FALSE, step |-> step, writes |-> <<cmd>>]

\* A reply that ends the session: cleanup() and resolve(result).
Finish(step, cmds, result) ==
  [done |-> TRUE, step |-> step, writes |-> cmds, result |-> result]

Blocked(email, code, mxServer, attemptNumber, isTemporary, text, message) ==
  createResult(email, "blocked", code, mxServer, attemptNumber, FALSE,
               isTemporary, Msg(text, message))

\* The probe of the address in lower case.
RcptToLowerCased(email) == Command("RCPT TO", ToLowerCase(email))

\* socket.write(`RCPT TO:<${email}>\r\n`)
RcptTo(email) == Command("RCPT TO", email)

\* Only 502 taken for "EHLO not supported".
IsEhloUnsupportedOnly502(code) == code = 502

\* code === 500 || code === 502
IsEhloUnsupported(code) == code = 500 \/ code = 502

\* A rejected greeting flagged like the rejections of the later steps.
ConnectRejectedIsTemporaryFor4xx(code) == code >= 400 /\ code < 500

\* The is_temporary_error of a greeting other than 220: the literal false.
ConnectRejectedIsTemporary(code) == FALSE

\* code >= 400 && code < 500
IsTemporaryCode(code) == code >= 400 /\ code < 500

processReply(currentStep, code, message, email, mxServer, attemptNumber) ==
  CASE currentStep = "CONNECT" ->
         IF code = 220 THEN Advance("EHLO", Command("EHLO", HeloName))
         ELSE Finish(currentStep, <<>>,
                Blocked(email, code, mxServer, attemptNumber,
                        ConnectRejectedIsTemporary(code),
                        "Server rejected connection: ", message))
    [] currentStep = "EHLO" ->
         IF code = 250 THEN Advance("MAIL_FROM", Command("MAIL FROM", fromEmail))
         ELSE IF IsEhloUnsupported(code)
           THEN Advance("HELO", Command("HELO", HeloName))
         ELSE Finish(currentStep, <<>>,
                Blocked(email, code, mxServer, attemptNumber,
                        IsTemporaryCode(code), "EHLO rejected: ", message))
    [] currentStep = "HELO" ->
         IF code = 250 THEN Advance("MAIL_FROM", Command("MAIL FROM", fromEmail))
         ELSE Finish(currentStep, <<>>,
                Blocked(email, code, mxServer, attemptNumber,
                        IsTemporaryCode(code), "HELO rejected: ", message))
    [] currentStep = "MAIL_FROM" ->
         IF code = 250 THEN Advance("RCPT_TO", RcptTo(email))
         ELSE Finish(currentStep, <<>>,
                Blocked(email, code, mxServer, attemptNumber,
                        IsTemporaryCode(code), "MAIL FROM rejected: ", message))
    [] currentStep = "RCPT_TO" ->
         LET v == ClassifyRcpt(code, message)
         IN  Finish(currentStep, <<Command("QUIT", "")>>,
               createResult(email, v.status, code, mxServer, attemptNumber,
                            v.isCatchAll, v.isTemporary, v.reason))


(***************************************************************************)
(* extractDomain and getMXRecords                                          *)
(***************************************************************************)
\* s.split(c), for a one-character separator
RECURSIVE SplitOn(_, _)
SplitOn(s, c) ==
  LET hits == {i \in 1..Len(s) : s[i] = c}
  IN  IF hits = {} THEN <<s>>
      ELSE LET i == CHOOSE k \in hits : \A m \in hits : k <= m
           IN  <<SubSeq(s, 1, i - 1)>> \o SplitOn(SubSeq(s, i + 1, Len(s)), c)

\* How a call ends: it returns a value or it throws an error.
Return(value) == [kind |-> "return", value |-> value]

Throw(error) == [kind |-> "throw", error |-> error]

\* Only an address without "@" is refused.
extractDomainAtLeastTwoParts(e) ==
  LET parts == SplitOn(e, "@")
  IN  IF Len(parts) < 2 THEN Throw(Msg("Invalid email format", <<>>))
      ELSE Return(ToLowerCase(parts[2]))

extractDomain(e) ==
  LET parts == SplitOn(e, "@")
  IN  IF Len(parts) # 2 THEN Throw(Msg("Invalid email format", <<>>))
      ELSE Return(ToLowerCase(parts[2]))

\* The records used in the order DNS returned them.
SortByPriorityKeepOrder(records) == records

\* records.sort((a, b) => a.priority - b.priority): a stable sort.
RECURSIVE SortByPriority(_)
SortByPriority(records) ==
  IF Len(records) <= 1 THEN records
  ELSE LET rest == SortByPriority(Tail(records))
           h    == Head(records)
           \* h stays before the records of equal priority that followed it
           low  == SelectSeq(rest, LAMBDA r : r.priority < h.priority)
           high == SelectSeq(rest, LAMBDA r : r.priority >= h.priority)
       IN  low \o <<h>> \o high

\* dns is what resolveMx does: it rejects, or it resolves with records.
getMXRecords(dns) ==
  IF dns.ok THEN SortByPriority(dns.records) ELSE <<>>

(***************************************************************************)
(* The inputs of the model                                                 *)
(***************************************************************************)
\* The addresses verifyEmail is called with: well formed, without "@", with two.
Emails ==
  {<<"u", "@", "T">>, <<"u">>, <<"u", "@", "t", "@", "x">>}

HostNames == <<"mx1.example", "mx2.example", "mx3.example", "mx4.example">>

HostPriority == <<10, 20, 10, 20>>

MXRecord(i) == [exchange |-> HostNames[i], priority |-> HostPriority[i]]

\* The orders in which DNS may return n records: the permutations of 1..n.
RECURSIVE Perms(_)
Perms(n) ==
  IF n = 0 THEN {<<>>}
  ELSE {[i \in 1..n |-> IF i < k THEN p[i] ELSE IF i = k THEN n ELSE p[i - 1]] :
          <<p, k>> \in Perms(n - 1) \X (1..n)}

\* The answers of DNS: a failure, or up to MaxMX records in any order.
DnsOutcomes ==
  {[ok |-> FALSE, records |-> <<>>]} \cup
  {[ok |-> TRUE, records |-> [i \in 1..Len(q) |-> MXRecord(q[i])]] :
     q \in UNION {Perms(n) : n \in 0..MaxMX}}

Text(code, sep, words) == NumToStr(code) \o <<sep>> \o words \o <<CR, LF>>

OK == <<"o", "k">>

Grey == <<"G", "r", "e", "y", "l", "i", "s", "t">>

\* The single-line replies a server sends.
Replies ==
  {Text(c, " ", OK) : c \in {220, 250, 251, 252, 450, 454, 502}} \cup
  {Text(c, " ", Grey) : c \in {421, 454, 550}}

\* A reply of two lines.
MultiLine == Text(250, "-", <<"x">>) \o Text(250, " ", OK)

\* How the bytes of one reply reach the socket, as a sequence of data events:
\* in one piece, a multi-line reply line by line, a line cut inside its code.
Deliveries ==
  {<<r>> : r \in Replies \cup {MultiLine}} \cup
  {<<Text(250, "-", <<"x">>), Text(250, " ", OK)>>,
   <<<<"2", "5">>, <<"0", " ", "o", "k", CR, LF>>>>}

RECURSIVE Concat(_)
Concat(chunks) ==
  IF Len(chunks) = 0 THEN <<>> ELSE Head(chunks) \o Concat(Tail(chunks))

\* The data events that can follow when `buffer` is what has arrived of the
\* reply the server is sending.
NextChunks(buffer) ==
  {d[k] : <<d, k>> \in
     {<<d, k>> \in Deliveries \X (1..2) :
        k <= Len(d) /\ Concat(SubSeq(d, 1, k - 1)) = buffer}}

\* DNS answers of up to three records with any priorities out of three, among
\* them 30, 10, 20.
PriorityAnswers ==
  {[ok |-> TRUE,
    records |-> [i \in 1..Len(q) |-> [exchange |-> HostNames[i], priority |-> q[i]]]] :
     q \in UNION {[1..n -> {10, 20, 30}] : n \in 0..3}}

\* The codes of the replies a session is checked with.
RcptCodes == 100..599

\* Texts that contain "greylist", in some mix of upper and lower case.
GreylistMessages ==
  {Grey,
   <<"x", " ">> \o <<"g", "R", "E", "Y", "L", "I", "S", "T", "e", "d">>}

\* Texts that do not: a plain one, the empty one, the keyword cut short.
PlainMessages ==
  {OK, <<>>, <<"g", "r", "e", "y", " ", "l", "i", "s", "t">>}

\* Single-line replies with every code and text, each arriving in one data
\* event.
SessionReplies ==
  {Text(c, " ", m) : <<c, m>> \in RcptCodes \X (GreylistMessages \cup PlainMessages)}

(***************************************************************************)
(* State                                                                   *)
(***************************************************************************)
VARIABLES
  pc,             \* where verifyEmail is: start, resolving, dial, handshake,
                  \* sleeping, exhausted, returned, threw
  email,          \* the argument of verifyEmail
  mxRecords,      \* verifyEmail: mxRecords
  attempt,        \* verifyEmail: the loop variable attempt (0-based)
  hostIdx,        \* attemptSMTPVerification: the position of mx in mxRecords
  lastResult,     \* verifyEmail: lastResult
  result,         \* the value verifyEmail returned
  sock,           \* the socket of the handshake: none, connecting, connected,
                  \* closed (by the peer), destroyed (by cleanup)
  currentStep,    \* performSMTPHandshake: currentStep
  responseBuffer, \* performSMTPHandshake: responseBuffer
  outcome,        \* how the handshake promise settled, Null while pending
  written,        \* the commands written to the socket of this handshake
  rcptCount,      \* history: the replies to RCPT TO this call has processed
  defCount,       \* history: those of them classified valid, invalid, catch_all
  lastOutcome,    \* history: what the latest finished attempt ended with
  rcptReply,      \* processResponse: code and message of the reply to RCPT TO
                  \* of this handshake, Null before it
  dialed,         \* history: the MX records this attempt has connected to
  replies,        \* history: the codes of the complete replies this handshake
                  \* has processed
  delay,          \* verifyEmail: delay, the milliseconds of the sleep in
                  \* progress, 0 when there is none
  script,         \* what DNS and the servers do when they follow a script,
                  \* NoScript when they are free
  wire            \* the bytes the server of this handshake has sent that no
                  \* data event has delivered yet, when the model follows them

vars ==
  <<pc, email, mxRecords, attempt, hostIdx, lastResult, result, sock,
    currentStep, responseBuffer, outcome, written, rcptCount, defCount,
    lastOutcome, rcptReply, dialed, replies, delay, script, wire>>

sessionVars == <<sock, currentStep, responseBuffer, outcome, written>>

\* No handshake is in progress: the socket and the closure of the previous one
\* are unreachable.
NoSession(s, step, buffer, settled, cmds) ==
  /\ s = "none"
  /\ step = "CONNECT"
  /\ buffer = <<>>
  /\ settled = Null
  /\ cmds = <<>>

historyVars == <<rcptCount, defCount, lastOutcome, rcptReply, dialed, replies>>

\* DNS and the servers follow no script.
NoScript == [dns |-> [ok |-> FALSE, records |-> <<>>], attempts |-> <<>>]

\* verifyEmail has been called.
Called ==
  /\ pc = "start"
  /\ email \in Emails
  /\ mxRecords = <<>>
  /\ attempt = 0
  /\ hostIdx = 0
  /\ lastResult = Null
  /\ result = Null
  /\ NoSession(sock, currentStep, responseBuffer, outcome, written)
  /\ rcptCount = 0
  /\ defCount = 0
  /\ lastOutcome = Null
  /\ rcptReply = Null
  /\ dialed = <<>>
  /\ replies = <<>>
  /\ delay = 0
  /\ wire = <<>>

Init == Called /\ script = NoScript

(***************************************************************************)
(* verifyEmail                                                             *)
(***************************************************************************)
OuterCatchRethrow(error) == Throw(error)

\* The catch block that encloses the body of verifyEmail.
OuterCatch(error) ==
  Return(createResult(email, "unknown", 0, "error", 1, FALSE, FALSE, error))

\* verifyEmail ends: the promise it returned is fulfilled or rejected.
Complete(c) ==
  /\ pc' = IF c.kind = "return" THEN "returned" ELSE "threw"
  /\ result' = IF c.kind = "return" THEN c.value ELSE Null

\* Step 1: extract the domain.
Start ==
  /\ pc = "start"
  /\ LET d == extractDomain(email)
     IN  IF d.kind = "throw"
           THEN Complete(OuterCatch(d.error))
           ELSE pc' = "resolving" /\ result' = result
  /\ UNCHANGED <<delay, email, mxRecords, attempt, hostIdx, lastResult>>
  /\ UNCHANGED sessionVars
  /\ UNCHANGED historyVars
  /\ UNCHANGED <<script, wire>>

\* A domain without MX records reported like a network failure.
NoMXResultAsUnknown ==
  createResult(email, "unknown", 0, "No MX", 1, FALSE, TRUE,
               Msg("No MX records found for domain", <<>>))

NoMXResult ==
  createResult(email, "invalid", 550, "No MX", 1, FALSE, FALSE,
               Msg("No MX records found for domain", <<>>))

\* Step 2: the MX lookup settles; the retry loop starts with attempt 0, which
\* does not sleep.
ResolveWith(dns) ==
  /\ pc = "resolving"
  /\ LET mx == getMXRecords(dns)
     IN  IF Len(mx) = 0
             THEN /\ Complete(Return(NoMXResult))
                  /\ UNCHANGED <<mxRecords, hostIdx>>
             ELSE /\ mxRecords' = mx
                  /\ hostIdx' = 1
                  /\ pc' = "dial"
                  /\ result' = result
  /\ UNCHANGED <<delay, email, attempt, lastResult>>
  /\ UNCHANGED sessionVars
  /\ UNCHANGED historyVars
  /\ UNCHANGED <<script, wire>>

\* DNS answers as it likes.
Resolve == \E dns \in DnsOutcomes : ResolveWith(dns)

AttemptNumberZeroBased(a) == a

\* attempt + 1, the attemptNumber handed to attemptSMTPVerification
AttemptNumber(a) == a + 1

IsDefinitiveWithoutCatchAll(status) == status = "valid" \/ status = "invalid"

IsDefinitiveWithoutInvalid(status) == status = "valid" \/ status = "catch_all"

\* result.status === "valid" || result.status === "invalid" || result.status === "catch_all"
IsDefinitive(status) ==
  status = "valid" \/ status = "invalid" \/ status = "catch_all"

\* The verdict of an attempt that is not definitive is dropped.
StoreLastNever(last, r) == last

StoreLastKeepFirst(last, r) == IF last = Null THEN r ELSE last

\* lastResult = result
StoreLast(last, r) == r

\* The failure of an attempt recorded as final rather than temporary.
AttemptFailedNotTemporary(error) ==
  createResult(email, "unknown", 0, mxRecords[1].exchange, attempt + 1, FALSE,
               FALSE, error)

\* The result the catch block of an attempt builds.
AttemptFailed(error) ==
  createResult(email, "unknown", 0, mxRecords[1].exchange, attempt + 1, FALSE,
               TRUE, error)

\* The values of Math.random() the model draws, in tenths: the least one, the
\* middle and one close to 1.
RandomTenths == {0, 5, 9}

\* A jitter of half the delay.
addJitterWide(ms, random) == ms + (random * 2 * (ms * 5) - 10 * (ms * 5)) \div 100

\* delay + (Math.random() * jitter * 2 - jitter) with jitter = delay * 0.3,
\* for Math.random() = random / 10
addJitter(ms, random) == ms + (random * 2 * (ms * 3) - 10 * (ms * 3)) \div 100

\* The end of one iteration of the retry loop: the next one, if there is one,
\* first sleeps Math.round(this.addJitter(RETRY_DELAYS[attempt - 1])).
NextAttempt ==
  /\ attempt' = attempt + 1
  /\ pc' = IF attempt + 1 < MAX_RETRIES THEN "sleeping" ELSE "exhausted"
  /\ IF attempt + 1 < MAX_RETRIES
       THEN \E random \in RandomTenths :
              delay' = addJitter(RETRY_DELAYS[attempt + 1], random)
       ELSE delay' = 0
  /\ dialed' = <<>>


(***************************************************************************)
(* performSMTPHandshake: one socket, its events and their handlers         *)
(***************************************************************************)
Resolved(value) == [kind |-> "resolved", value |-> value]

Rejected(error) == [kind |-> "rejected", error |-> error]

\* The listeners removed, the socket left open.
cleanupWithoutDestroy == "connected"

\* cleanup(): socket.removeAllListeners(); socket.destroy().  The state it
\* leaves the socket in.
cleanup == "destroyed"

\* The listeners stay attached to a destroyed socket.
LiveUntilReleased == sock # "none"

\* The socket can still emit events to the listeners of the handshake.
Live == sock \in {"connecting", "connected"}

\* attemptSMTPVerification takes the next MX record and performSMTPHandshake
\* creates the socket, arms its timeout and connects.
Dial ==
  /\ pc = "dial"
  /\ pc' = "handshake"
  /\ sock' = "connecting"
  /\ currentStep' = "CONNECT"
  /\ responseBuffer' = <<>>
  /\ outcome' = Null
  /\ written' = <<>>
  /\ dialed' = Append(dialed, mxRecords[hostIdx])
  /\ UNCHANGED <<delay, email, mxRecords, attempt, hostIdx, lastResult, result>>
  /\ UNCHANGED <<rcptCount, defCount, lastOutcome, rcptReply, replies>>
  /\ UNCHANGED <<script, wire>>

\* The TCP connection is established.
Connect ==
  /\ sock = "connecting"
  /\ sock' = "connected"
  /\ UNCHANGED <<delay, pc, email, mxRecords, attempt, hostIdx, lastResult, result,
                 currentStep, responseBuffer, outcome, written>>
  /\ UNCHANGED historyVars
  /\ UNCHANGED <<script, wire>>

\* A timeout error that always names the first state.
TimeoutErrorNamesConnect(step) == Msg("Connection timeout during ", <<"CONNECT">>)

\* new Error(`Connection timeout during ${currentStep}`)
TimeoutError(step) == Msg("Connection timeout during ", <<step>>)

\* socket.on("timeout"): cleanup() and reject.
Timeout ==
  /\ Live
  /\ sock' = cleanup
  /\ outcome' = Rejected(TimeoutError(currentStep))
  /\ UNCHANGED <<delay, pc, email, mxRecords, attempt, hostIdx, lastResult, result,
                 currentStep, responseBuffer, written>>
  /\ UNCHANGED historyVars
  /\ UNCHANGED <<script, wire>>

\* socket.on("error"): cleanup() and reject(error); the connection is refused
\* or it is reset.
SocketError ==
  /\ Live
  /\ sock' = cleanup
  /\ outcome' = Rejected(Msg(IF sock = "connecting" THEN "connect ECONNREFUSED"
                                                    ELSE "read ECONNRESET", <<>>))
  /\ UNCHANGED <<delay, pc, email, mxRecords, attempt, hostIdx, lastResult, result,
                 currentStep, responseBuffer, written>>
  /\ UNCHANGED historyVars
  /\ UNCHANGED <<script, wire>>

\* The server closes the connection: the socket ends and is destroyed, which
\* clears its timeout timer.  socket.on("close") writes a log line.
PeerClose ==
  /\ sock = "connected"
  /\ sock' = "closed"
  /\ UNCHANGED <<delay, pc, email, mxRecords, attempt, hostIdx, lastResult, result,
                 currentStep, responseBuffer, outcome, written>>
  /\ UNCHANGED historyVars
  /\ UNCHANGED <<script, wire>>

\* socket.on("data") with the bytes of chunk: responseBuffer += data;
\* processResponse().
Receive(chunk) ==
  /\ sock = "connected"
  /\ LET buffer == responseBuffer \o chunk
         parsed == parseSmtpResponse(buffer)
     IN  IF parsed = Null
             THEN /\ responseBuffer' = buffer
                  /\ UNCHANGED <<sock, currentStep, outcome, written>>
                  /\ UNCHANGED historyVars
             ELSE LET t == processReply(currentStep, parsed.code, parsed.message,
                                        email, mxRecords[hostIdx].exchange,
                                        AttemptNumber(attempt))
                      rcpt == currentStep = "RCPT_TO"
                  IN  /\ responseBuffer' = <<>>
                      /\ currentStep' = t.step
                      /\ written' = written \o t.writes
                      /\ sock' = IF t.done THEN cleanup ELSE sock
                      /\ outcome' = IF t.done THEN Resolved(t.result) ELSE outcome
                      /\ rcptCount' = IF rcpt THEN rcptCount + 1 ELSE rcptCount
                      /\ defCount' =
                           IF rcpt /\ t.result.status \in {"valid", "invalid", "catch_all"}
                             THEN defCount + 1 ELSE defCount
                      /\ rcptReply' =
                           IF rcpt THEN [code |-> parsed.code, message |-> parsed.message]
                                   ELSE rcptReply
                      /\ replies' = Append(replies, parsed.code)
                      /\ UNCHANGED <<lastOutcome, dialed>>
  /\ UNCHANGED <<delay, pc, email, mxRecords, attempt, hostIdx, lastResult, result>>
  /\ UNCHANGED script

\* The server sends the next bytes of its reply.
Data == \E chunk \in NextChunks(responseBuffer) : Receive(chunk) /\ UNCHANGED wire

(***************************************************************************)
(* attemptSMTPVerification and the retry loop, after a handshake settles   *)
(***************************************************************************)
\* The handshake resolved with a result: attemptSMTPVerification returns it
\* and verifyEmail returns it or keeps it and goes on to the next attempt.
HandshakeResolved ==
  /\ pc = "handshake"
  /\ outcome # Null
  /\ outcome.kind = "resolved"
  /\ LET r == outcome.value
     IN  IF IsDefinitive(r.status)
           THEN /\ Complete(Return(r))
                /\ UNCHANGED <<attempt, lastResult, lastOutcome, dialed, delay>>
           ELSE /\ lastResult' = StoreLast(lastResult, r)
                /\ lastOutcome' = r
                /\ NextAttempt
                /\ result' = result
  /\ NoSession(sock', currentStep', responseBuffer', outcome', written')
  /\ rcptReply' = Null
  /\ replies' = <<>>
  /\ UNCHANGED <<email, mxRecords, hostIdx, rcptCount, defCount>>
  /\ UNCHANGED <<script, wire>>

\* A blocked verdict taken for a failure of the host as well.
HostFailedOrBlocked(settled) ==
  \/ settled.kind = "rejected"
  \/ settled.kind = "resolved" /\ settled.value.status = "blocked"

\* await this.performSMTPHandshake(...) throws: the catch block of the host
\* loop runs.
HostFailed(settled) == settled.kind = "rejected"

\* The handshake rejected: attemptSMTPVerification goes on to the next MX
\* record.
NextHost ==
  /\ pc = "handshake"
  /\ outcome # Null
  /\ HostFailed(outcome)
  /\ hostIdx < Len(mxRecords)
  /\ hostIdx' = hostIdx + 1
  /\ pc' = "dial"
  /\ NoSession(sock', currentStep', responseBuffer', outcome', written')
  /\ replies' = <<>>
  /\ UNCHANGED <<delay, email, mxRecords, attempt, lastResult, result>>
  /\ UNCHANGED <<rcptCount, defCount, lastOutcome, rcptReply, dialed>>
  /\ UNCHANGED <<script, wire>>

\* The handshake with the last MX record rejected: attemptSMTPVerification
\* throws and the catch block of the attempt stores a result.
AllHostsFailed ==
  /\ pc = "handshake"
  /\ outcome # Null
  /\ HostFailed(outcome)
  /\ hostIdx = Len(mxRecords)
  /\ LET r == AttemptFailed(Msg("All MX servers failed to respond", <<>>))
     IN  /\ lastResult' = r
         /\ lastOutcome' = r
  /\ NextAttempt
  /\ NoSession(sock', currentStep', responseBuffer', outcome', written')
  /\ replies' = <<>>
  /\ UNCHANGED <<email, mxRecords, hostIdx, result, rcptCount, defCount, rcptReply>>
  /\ UNCHANGED <<script, wire>>

\* A sleep longer than its base delay makes the call give up.
SleepDoneGivesUpAfterLongSleep ==
  /\ pc = "sleeping"
  /\ pc' = IF delay > RETRY_DELAYS[attempt] THEN "exhausted" ELSE "dial"
  /\ hostIdx' = 1
  /\ delay' = 0
  /\ UNCHANGED <<email, mxRecords, attempt, lastResult, result>>
  /\ UNCHANGED sessionVars
  /\ UNCHANGED historyVars
  /\ UNCHANGED <<script, wire>>

\* await this.sleep(delay) ends; the attempt starts with the first MX record.
SleepDone ==
  /\ pc = "sleeping"
  /\ pc' = "dial"
  /\ hostIdx' = 1
  /\ delay' = 0
  /\ UNCHANGED <<email, mxRecords, attempt, lastResult, result>>
  /\ UNCHANGED sessionVars
  /\ UNCHANGED historyVars
  /\ UNCHANGED <<script, wire>>

FallbackResult ==
  createResult(email, "unknown", 0, mxRecords[1].exchange, MAX_RETRIES, FALSE,
               TRUE, Msg("Verification failed after all retries", <<>>))

\* All attempts exhausted: return the last result.
ReturnLast ==
  /\ pc = "exhausted"
  /\ Complete(Return(IF lastResult # Null
                       THEN [lastResult EXCEPT !.attempts = MAX_RETRIES]
                       ELSE FallbackResult))
  /\ UNCHANGED <<delay, email, mxRecords, attempt, hostIdx, lastResult>>
  /\ UNCHANGED sessionVars
  /\ UNCHANGED historyVars
  /\ UNCHANGED <<script, wire>>

(***************************************************************************)
(* Specifications                                                          *)
(***************************************************************************)
Next ==
  \/ Start
  \/ Resolve
  \/ Dial
  \/ Connect
  \/ Timeout
  \/ SocketError
  \/ PeerClose
  \/ Data
  \/ HandshakeResolved
  \/ NextHost
  \/ AllHostsFailed
  \/ SleepDone
  \/ ReturnLast

Spec == Init /\ [][Next]_vars

\* Timers fire and the continuations of settled promises run; what a server
\* sends, and whether it does, is not the program's to decide.
Fairness ==
  /\ WF_vars(Start)
  /\ WF_vars(Resolve)
  /\ WF_vars(Dial)
  /\ WF_vars(Timeout)
  /\ WF_vars(HandshakeResolved)
  /\ WF_vars(NextHost)
  /\ WF_vars(AllHostsFailed)
  /\ WF_vars(SleepDone)
  /\ WF_vars(ReturnLast)

FairSpec == Spec /\ Fairness

(***************************************************************************)
(* Calls against DNS and servers that follow a script: the DNS answer and, *)
(* for each attempt and each MX record in turn, the replies the server     *)
(* sends, one per data event, and how the session ends if they run out.    *)
(* The sleeps between the attempts stay random.                            *)
(***************************************************************************)
Session(texts, end) == [replies |-> texts, end |-> end]

\* The connection is refused.
Refused == Session(<<>>, "refused")

\* The server greets and then says nothing: the socket times out.
Silent == Session(<<Text(220, " ", OK)>>, "timeout")

\* The server rejects the greeting.
Busy == Session(<<Text(421, " ", OK)>>, "timeout")

\* 450 to RCPT TO, with a text that mentions greylist.
Deferring ==
  Session(<<Text(220, " ", OK), Text(250, " ", OK), Text(250, " ", OK),
            Text(450, " ", Grey)>>, "timeout")

\* EHLO refused with 502, HELO accepted, the mailbox accepted.
Accepting ==
  Session(<<Text(220, " ", OK), Text(502, " ", OK), Text(250, " ", OK),
            Text(250, " ", OK), Text(250, " ", OK)>>, "reset")

\* EHLO accepted, then the connection reset before a reply to MAIL FROM.
Resetting == Session(<<Text(220, " ", OK), Text(250, " ", OK)>>, "reset")

\* EHLO accepted, then nothing: the socket times out waiting for the reply to
\* MAIL FROM.
Stalling == Session(<<Text(220, " ", OK), Text(250, " ", OK)>>, "timeout")

\* What the hosts of one attempt do, in the order they are dialed.
AttemptScripts ==
  {<<Refused, Silent>>, <<Silent, Deferring>>, <<Resetting, Accepting>>,
   <<Busy, Accepting>>, <<Deferring, Refused>>, <<Stalling, Stalling>>}

ScriptedDns ==
  {[ok |-> FALSE, records |-> <<>>],
   [ok |-> TRUE, records |-> <<MXRecord(1)>>],
   [ok |-> TRUE, records |-> <<MXRecord(1), MXRecord(2)>>],
   [ok |-> TRUE, records |-> <<MXRecord(2), MXRecord(1)>>]}

Scripts ==
  {[dns |-> d, attempts |-> a] :
     <<d, a>> \in ScriptedDns \X [1..MAX_RETRIES -> AttemptScripts]}

\* The script of the session in progress.
SessionScript == script.attempts[attempt + 1][hostIdx]

ScriptedResolve == ResolveWith(script.dns)

ScriptedConnect ==
  /\ sock = "connecting"
  /\ IF SessionScript.end = "refused" THEN SocketError ELSE Connect

ScriptedReply ==
  /\ sock = "connected"
  /\ Len(replies) < Len(SessionScript.replies)
  /\ Receive(SessionScript.replies[Len(replies) + 1])
  /\ UNCHANGED wire

ScriptedEnd ==
  /\ sock = "connected"
  /\ Len(replies) = Len(SessionScript.replies)
  /\ IF SessionScript.end = "timeout" THEN Timeout ELSE SocketError

ScriptedNext ==
  \/ Start
  \/ ScriptedResolve
  \/ Dial
  \/ ScriptedConnect
  \/ ScriptedReply
  \/ ScriptedEnd
  \/ HandshakeResolved
  \/ NextHost
  \/ AllHostsFailed
  \/ SleepDone
  \/ ReturnLast

ScriptedInit == Called /\ script \in Scripts

ScriptedSpec == ScriptedInit /\ [][ScriptedNext]_vars

(***************************************************************************)
(* verifyEmail as a function of the address and the script                 *)
(***************************************************************************)
\* performSMTPHandshake from step on, with a server that sends texts.
RECURSIVE handshakeOutcome(_, _, _, _, _)
handshakeOutcome(step, texts, e, mxServer, attemptNumber) ==
  IF texts = <<>> THEN [kind |-> "rejected"]
  ELSE LET parsed == parseSmtpResponse(Head(texts))
           t == processReply(step, parsed.code, parsed.message, e, mxServer,
                             attemptNumber)
       IN  IF t.done THEN Resolved(t.result)
           ELSE handshakeOutcome(t.step, Tail(texts), e, mxServer, attemptNumber)

\* attemptSMTPVerification from the i-th MX record on.
RECURSIVE attemptResult(_, _, _, _, _)
attemptResult(i, e, mx, sessions, attemptNumber) ==
  IF i > Len(mx) THEN Throw(Msg("All MX servers failed to respond", <<>>))
  ELSE LET o == handshakeOutcome("CONNECT", sessions[i].replies, e,
                                 mx[i].exchange, attemptNumber)
       IN  IF o.kind = "resolved" THEN Return(o.value)
           ELSE attemptResult(i + 1, e, mx, sessions, attemptNumber)

\* The retry loop of verifyEmail from attempt a on, and what follows it.
RECURSIVE retryLoop(_, _, _, _, _)
retryLoop(a, last, e, mx, s) ==
  IF a >= MAX_RETRIES
    THEN IF last # Null THEN [last EXCEPT !.attempts = MAX_RETRIES]
         ELSE createResult(e, "unknown", 0, mx[1].exchange, MAX_RETRIES, FALSE, TRUE,
                           Msg("Verification failed after all retries", <<>>))
  ELSE LET c == attemptResult(1, e, mx, s.attempts[a + 1], a + 1)
       IN  IF c.kind = "return"
             THEN IF IsDefinitive(c.value.status) THEN c.value
                  ELSE retryLoop(a + 1, c.value, e, mx, s)
             ELSE retryLoop(a + 1,
                            createResult(e, "unknown", 0, mx[1].exchange, a + 1,
                                         FALSE, TRUE, c.error),
                            e, mx, s)

verifyEmailResult(e, s) ==
  LET d == extractDomain(e)
  IN  IF d.kind = "throw"
        THEN createResult(e, "unknown", 0, "error", 1, FALSE, FALSE, d.error)
      ELSE LET mx == getMXRecords(s.dns)
           IN  IF Len(mx) = 0
                 THEN createResult(e, "invalid", 550, "No MX", 1, FALSE, FALSE,
                                   Msg("No MX records found for domain", <<>>))
               ELSE retryLoop(0, Null, e, mx, s)

(***************************************************************************)
(* One session with a server that answers each step with any code and      *)
(* text: the handshake of the first attempt with the first MX record.      *)
(***************************************************************************)
SessionDialed ==
  /\ pc = "handshake"
  /\ email = <<"u", "@", "T">>
  /\ mxRecords = <<MXRecord(1)>>
  /\ attempt = 0
  /\ hostIdx = 1
  /\ lastResult = Null
  /\ result = Null
  /\ sock = "connecting"
  /\ currentStep = "CONNECT"
  /\ responseBuffer = <<>>
  /\ outcome = Null
  /\ written = <<>>
  /\ rcptCount = 0
  /\ defCount = 0
  /\ lastOutcome = Null
  /\ rcptReply = Null
  /\ dialed = <<MXRecord(1)>>
  /\ replies = <<>>
  /\ delay = 0
  /\ script = NoScript
  /\ wire = <<>>

ReplyArrives == \E chunk \in SessionReplies : Receive(chunk) /\ UNCHANGED wire

SessionNext ==
  \/ Connect
  \/ ReplyArrives

SessionSpec == SessionDialed /\ [][SessionNext]_vars

(***************************************************************************)
(* One session with a server whose replies are fixed and whose bytes reach *)
(* the data handler in chunks cut anywhere: the handshake of the first     *)
(* attempt with the first MX record.                                       *)
(***************************************************************************)
\* The replies the server sends in one session, each a whole reply.
Streams ==
  {<<Text(220, " ", OK), Text(250, " ", OK), Text(250, " ", OK),
     Text(250, " ", OK)>>,
   <<Text(220, " ", OK), MultiLine, Text(250, " ", OK), Text(450, " ", Grey)>>,
   <<Text(220, " ", OK), Text(502, " ", OK), Text(250, " ", OK),
     Text(250, " ", OK), Text(550, " ", OK)>>,
   <<Text(220, " ", OK), Text(250, " ", OK), Text(250, " ", OK), MultiLine>>,
   <<Text(421, " ", OK)>>}

StreamScripts ==
  {[dns |-> [ok |-> TRUE, records |-> <<MXRecord(1)>>],
    attempts |-> <<<<Session(texts, "timeout")>>>>] : texts \in Streams}

\* The socket is created and the server's bytes are on their way.
StreamDialed ==
  /\ pc = "handshake"
  /\ email = <<"u", "@", "T">>
  /\ mxRecords = <<MXRecord(1)>>
  /\ attempt = 0
  /\ hostIdx = 1
  /\ lastResult = Null
  /\ result = Null
  /\ sock = "connecting"
  /\ currentStep = "CONNECT"
  /\ responseBuffer = <<>>
  /\ outcome = Null
  /\ written = <<>>
  /\ rcptCount = 0
  /\ defCount = 0
  /\ lastOutcome = Null
  /\ rcptReply = Null
  /\ dialed = <<MXRecord(1)>>
  /\ replies = <<>>
  /\ delay = 0
  /\ script \in StreamScripts
  /\ wire = Concat(script.attempts[1][1].replies)

\* socket.on("data") with the next n bytes of the wire, for any n.
Deliver ==
  /\ sock = "connected"
  /\ \E n \in 1..Len(wire) :
       /\ Receive(SubSeq(wire, 1, n))
       /\ wire' = SubSeq(wire, n + 1, Len(wire))

\* The server has sent everything and the handshake is still waiting: the
\* socket stays idle for SMTP_TIMEOUT.
Idle ==
  /\ sock = "connected"
  /\ wire = <<>>
  /\ Timeout

StreamNext ==
  \/ Connect
  \/ Deliver
  \/ Idle

StreamSpec == StreamDialed /\ [][StreamNext]_vars


(***************************************************************************)
(* One session with a server that, at any step, may stop answering and     *)
(* send bytes that never form a reply.                                     *)
(***************************************************************************)
\* n bytes without a line end and without a reply code.
Junk(n) == [i \in 1..n |-> "x"]

\* The sizes of the data events that carry such bytes: 16 KiB and 20 KiB.
JunkSizes == {16 * 1024, 20 * 1024}

\* The server stops sending once the handshake has buffered this much.
MaxBuffered == 86016

\* The server answers the command it has received with 220 or 250.
PromptReply ==
  /\ responseBuffer = <<>>
  /\ \E chunk \in {Text(220, " ", OK), Text(250, " ", OK)} : Receive(chunk)
  /\ UNCHANGED wire

\* socket.on("data") with bytes that are no reply.
JunkArrives ==
  /\ \E n \in JunkSizes :
       /\ Len(responseBuffer) + n <= MaxBuffered
       /\ Receive(Junk(n))
  /\ UNCHANGED wire

RunawayNext ==
  \/ Connect
  \/ PromptReply
  \/ JunkArrives
  \/ Timeout

RunawaySpec == SessionDialed /\ [][RunawayNext]_vars

(***************************************************************************)
(* Properties                                                              *)
(***************************************************************************)
\* The statuses the retry loop returns at once.
DefinitiveStatuses == {"valid", "invalid", "catch_all"}

Returned == pc = "returned"

\* verifyEmail returned a result of its retry loop.
ReturnedFromRetryLoop ==
  /\ Returned
  /\ result.mx_server \notin {"No MX", "error"}

\* C1: every call of verifyEmail eventually returns a result, whatever DNS
\* and the servers do, when timers fire and the continuations of settled
\* promises run.
C1_EventuallyReturns == <>(pc = "returned")

\* C2: verifyEmail never throws: it always ends by returning a
\* VerificationResult, also for a malformed address, a DNS failure, a socket
\* error or a timeout.
C2_NeverThrows ==
  /\ pc # "threw"
  /\ Returned =>
       /\ result # Null
       /\ result.status \in VerificationStatus
       /\ result.email = email

\* The malformed address came back as a result.
C2_Witness ==
  /\ Returned
  /\ result.mx_server = "error"
  /\ result.reason.text = "Invalid email format"

\* C3: once a handshake has resolved with a verdict whose status is valid,
\* invalid or catch_all, the next step of verifyEmail returns that verdict
\* unchanged, without starting another attempt, host or sleep, and nothing
\* happens after the return.
C3_EarlyExit ==
  [][/\ (/\ pc = "handshake"
         /\ outcome # Null
         /\ outcome.kind = "resolved"
         /\ outcome.value.status \in DefinitiveStatuses)
          => /\ pc' = "returned"
             /\ result' = outcome.value
             /\ attempt' = attempt
             /\ hostIdx' = hostIdx
             /\ sock' = "none"
     /\ Returned => UNCHANGED vars]_vars

\* A catch_all verdict of the second attempt was returned.
C3_Witness ==
  /\ Returned
  /\ result.status = "catch_all"
  /\ result.smtp_code = 252
  /\ attempt = 1

\* C4, as claimed: a call that returns valid, invalid or catch_all has
\* processed exactly one reply to RCPT TO over all its sessions and attempts.
C4_ExactlyOneRcptReply ==
  (Returned /\ result.status \in DefinitiveStatuses) => rcptCount = 1

\* C4, amended: at most one reply to RCPT TO is ever classified valid, invalid
\* or catch_all, and after it the call only returns; a call that returns
\* valid, invalid or catch_all from a dialogue has processed exactly one such
\* reply and at most one reply to RCPT TO per attempt made; the result for a
\* domain without MX records has processed none.
C4_OneDefinitiveRcptReply ==
  /\ defCount <= 1
  /\ defCount = 1 =>
       \/ Returned
       \/ pc = "handshake" /\ sock = "destroyed" /\ outcome # Null
  /\ (Returned /\ result.status \in DefinitiveStatuses) =>
       IF result.mx_server = "No MX"
         THEN rcptCount = 0
         ELSE /\ defCount = 1
              /\ rcptCount >= 1
              /\ rcptCount <= result.attempts

\* A retried call: the first reply to RCPT TO was not definitive, the second
\* one was.
C4_Witness ==
  /\ Returned
  /\ result.status = "valid"
  /\ rcptCount = 2
  /\ defCount = 1

\* C5: a call whose attempts all end without a definitive verdict makes
\* exactly MAX_RETRIES attempts and returns what the last of them ended with,
\* with attempts = MAX_RETRIES.
C5_Exhaustion ==
  /\ pc = "exhausted" => attempt = MAX_RETRIES
  /\ (ReturnedFromRetryLoop /\ result.status \notin DefinitiveStatuses) =>
       /\ attempt = MAX_RETRIES
       /\ lastOutcome # Null
       /\ lastOutcome.attempts = MAX_RETRIES
       /\ result = [lastOutcome EXCEPT !.attempts = MAX_RETRIES]
       /\ result.attempts = MAX_RETRIES

\* The third attempt ended with the call's only reply to RCPT TO, so the
\* result is not that of an earlier attempt.
C5_Witness ==
  /\ Returned
  /\ attempt = MAX_RETRIES
  /\ result.status = "greylisted"
  /\ rcptCount = 1

\* C6: attempts of a returned result is between 1 and MAX_RETRIES and is the
\* 1-based number of the attempt that produced the verdict.
C6_Attempts ==
  Returned =>
    /\ result.attempts >= 1
    /\ result.attempts <= MAX_RETRIES
    /\ (ReturnedFromRetryLoop /\ result.status \in DefinitiveStatuses) =>
         result.attempts = attempt + 1
    /\ (ReturnedFromRetryLoop /\ result.status \notin DefinitiveStatuses) =>
         result.attempts = attempt

\* 421 to RCPT TO on the first attempt, 250 on the second: valid, attempts 2.
C6_Witness ==
  /\ Returned
  /\ result.status = "valid"
  /\ result.smtp_code = 250
  /\ result.attempts = 2
  /\ lastResult # Null
  /\ lastResult.smtp_code = 421
  /\ lastResult.status = "retry_later"

\* C7: in a returned result, status is catch_all exactly when is_catch_all
\* is true.
C7_CatchAllFlag ==
  Returned => ((result.status = "catch_all") <=> result.is_catch_all)

C7_Witness ==
  /\ Returned
  /\ result.status = "catch_all"
  /\ result.is_catch_all

\* C8: in a returned result, status retry_later or greylisted implies
\* is_temporary_error.
C8_TemporaryFlag ==
  (Returned /\ result.status \in {"retry_later", "greylisted"}) =>
    result.is_temporary_error

C8_Witness ==
  /\ Returned
  /\ result.status = "greylisted"
  /\ result.is_temporary_error
  /\ result.smtp_code = 454

\* C9: in a returned result, status valid implies smtp_code 250 or 251.
C9_ValidCode ==
  (Returned /\ result.status = "valid") => result.smtp_code \in {250, 251}

C9_Witness ==
  /\ Returned
  /\ result.status = "valid"
  /\ result.smtp_code = 251

\* C10: in a returned result, status invalid implies smtp_code 0 or at
\* least 500; this covers the result for a domain without MX records and the
\* replies to RCPT TO whose text mentions greylist.
C10_InvalidCode ==
  (Returned /\ result.status = "invalid") =>
    (result.smtp_code = 0 \/ result.smtp_code >= 500)

\* 550 with a text that mentions greylist, answered to RCPT TO.
C10_Witness ==
  /\ ReturnedFromRetryLoop
  /\ result.status = "invalid"
  /\ result.smtp_code = 550
  /\ MentionsGreylist(result.reason.detail)

\* C11: the verdict on a reply to RCPT TO is that of the first matching row of
\* the table, for every code from 100 to 599 and every text, with or without
\* "greylist" in any case: 250 and 251 valid; 252 catch_all with is_catch_all;
\* 550 to 554 invalid; 450 to 452 and 421 retry_later and temporary whatever
\* the text; otherwise a text with greylist gives greylisted and temporary;
\* otherwise from 500 invalid, from 400 retry_later and temporary, else
\* unknown.
C11_RcptTable ==
  (rcptReply # Null /\ outcome # Null) =>
    LET code == rcptReply.code
        grey == rcptReply.message \in GreylistMessages
        r    == outcome.value
        row(status, isCatchAll, isTemporary) ==
          /\ r.status = status
          /\ r.is_catch_all = isCatchAll
          /\ r.is_temporary_error = isTemporary
    IN  /\ outcome.kind = "resolved"
        /\ r.smtp_code = code
        /\ code \in RcptCodes
        /\ rcptReply.message \in GreylistMessages \cup PlainMessages
        /\ CASE code \in {250, 251} -> row("valid", FALSE, FALSE)
             [] code = 252 -> row("catch_all", TRUE, FALSE)
             [] code \in 550..554 -> row("invalid", FALSE, FALSE)
             [] code \in 450..452 \cup {421} -> row("retry_later", FALSE, TRUE)
             [] OTHER ->
                  IF grey THEN row("greylisted", FALSE, TRUE)
                  ELSE IF code >= 500 THEN row("invalid", FALSE, FALSE)
                  ELSE IF code >= 400 THEN row("retry_later", FALSE, TRUE)
                  ELSE row("unknown", FALSE, FALSE)

\* 450 with a text that mentions greylist is retry_later, not greylisted.
C11_Witness ==
  /\ rcptReply # Null
  /\ rcptReply.code = 450
  /\ rcptReply.message \in GreylistMessages
  /\ outcome # Null
  /\ outcome.value.status = "retry_later"
  /\ outcome.value.is_temporary_error

\* The address does not split on "@" into exactly two parts.
Malformed == Len(SplitOn(email, "@")) # 2

\* C12: for an address that does not split on "@" into exactly two parts,
\* verifyEmail does nothing but return unknown, smtp_code 0, mx_server
\* "error", attempts 1, reason "Invalid email format": no MX lookup, no
\* socket, no sleep, no retry.
C12_InvalidFormat ==
  Malformed =>
    /\ pc \in {"start", "returned"}
    /\ mxRecords = <<>>
    /\ attempt = 0
    /\ hostIdx = 0
    /\ sock = "none"
    /\ written = <<>>
    /\ Returned =>
         result = createResult(email, "unknown", 0, "error", 1, FALSE, FALSE,
                               Msg("Invalid email format", <<>>))

\* The address with two "@" came back.
C12_Witness ==
  /\ Returned
  /\ email = <<"u", "@", "t", "@", "x">>
  /\ result.status = "unknown"
  /\ result.reason.text = "Invalid email format"

\* C13: when the MX lookup fails or yields no records, verifyEmail holds no
\* MX records and returns invalid, smtp_code 550, mx_server "No MX", attempts
\* 1, both flags false; it opens no socket, never sleeps and makes no attempt.
C13_NoMX ==
  (~Malformed /\ mxRecords = <<>>) =>
    /\ pc \in {"start", "resolving", "returned"}
    /\ attempt = 0
    /\ hostIdx = 0
    /\ sock = "none"
    /\ written = <<>>
    /\ lastResult = Null
    /\ Returned =>
         result = createResult(email, "invalid", 550, "No MX", 1, FALSE, FALSE,
                               Msg("No MX records found for domain", <<>>))

\* The lookup of a well-formed address gave nothing and the call returned.
C13_Witness ==
  /\ Returned
  /\ ~Malformed
  /\ mxRecords = <<>>
  /\ result.mx_server = "No MX"
  /\ result.smtp_code = 550

\* The handshake with the last MX record of this attempt has rejected, as
\* those with the records before it have: a refused connection, a socket
\* error or a timeout on every host.
EveryHostFailed ==
  /\ pc = "handshake"
  /\ outcome # Null
  /\ outcome.kind = "rejected"
  /\ hostIdx = Len(mxRecords)

\* The verdict an attempt records when every host failed.
IsSyntheticVerdict(r, n) ==
  /\ r.status = "unknown"
  /\ r.smtp_code = 0
  /\ r.is_temporary_error
  /\ ~r.is_catch_all
  /\ r.attempts = n
  /\ r.reason.text = "All MX servers failed to respond"

\* C14: when every MX host of an attempt fails with a network error, the
\* attempt records the verdict unknown, smtp_code 0, is_temporary_error true
\* and the next attempt runs from the first host after its sleep; when that
\* is how the last of the MAX_RETRIES attempts ends, as it is when every
\* attempt ends so, verifyEmail returns unknown, smtp_code 0, attempts
\* MAX_RETRIES, is_temporary_error true.
C14_AllHostsFail ==
  /\ [][/\ EveryHostFailed =>
             /\ IsSyntheticVerdict(lastResult', attempt + 1)
             /\ attempt' = attempt + 1
             /\ pc' = IF attempt + 1 < MAX_RETRIES THEN "sleeping" ELSE "exhausted"
             /\ sock' = "none"
        /\ pc = "sleeping" => (pc' = "dial" /\ hostIdx' = 1 /\ attempt' = attempt)
        /\ (pc = "exhausted" /\ lastOutcome # Null
              /\ IsSyntheticVerdict(lastOutcome, MAX_RETRIES)) =>
             /\ pc' = "returned"
             /\ IsSyntheticVerdict(result', MAX_RETRIES)]_vars
  /\ [](pc \in {"sleeping", "exhausted"} => lastResult # Null)

\* Both hosts failed on the third attempt, no reply to RCPT TO was ever
\* seen, and the call returned the recorded verdict.
C14_Witness ==
  /\ Returned
  /\ Len(mxRecords) = 2
  /\ hostIdx = 2
  /\ attempt = MAX_RETRIES
  /\ rcptCount = 0
  /\ IsSyntheticVerdict(result, MAX_RETRIES)

\* The priorities of the records never go down.
Ascending(records) ==
  \A i, j \in 1..Len(records) : i < j => records[i].priority <= records[j].priority

\* getMXRecords returns the records DNS returned, in ascending priority,
\* whatever the order DNS returned them in.
SortedWhateverDnsOrder ==
  \A dns \in DnsOutcomes \cup PriorityAnswers :
    LET mx == getMXRecords(dns)
    IN  /\ Ascending(mx)
        /\ Len(mx) = Len(dns.records)
        /\ \A r \in {dns.records[i] : i \in 1..Len(dns.records)} :
             Cardinality({i \in 1..Len(mx) : mx[i] = r}) =
               Cardinality({i \in 1..Len(dns.records) : dns.records[i] = r})

\* C15: the MX records are held in ascending priority whatever order DNS
\* returned them in, and the hosts an attempt has dialed are the first ones
\* of that list, in its order: every attempt starts with no host dialed and
\* dials from the record of the lowest priority number on.
C15_DialOrder ==
  /\ SortedWhateverDnsOrder
  /\ Ascending(mxRecords)
  /\ Ascending(dialed)
  /\ Len(dialed) <= Len(mxRecords)
  /\ dialed = SubSeq(mxRecords, 1, Len(dialed))
  /\ pc \in {"sleeping", "exhausted"} => dialed = <<>>
  /\ pc = "dial" => (hostIdx >= 1 /\ Len(dialed) = hostIdx - 1)
  /\ pc = "handshake" => (hostIdx >= 1 /\ Len(dialed) = hostIdx)

\* The second attempt has dialed the host of priority 10 and then the host of
\* priority 20; the list is the one DNS's answer 20, 10 is sorted to.
C15_Witness ==
  /\ attempt = 1
  /\ pc = "handshake"
  /\ dialed = <<MXRecord(1), MXRecord(2)>>
  /\ getMXRecords([ok |-> TRUE, records |-> <<MXRecord(2), MXRecord(1)>>]) = mxRecords
  /\ getMXRecords([ok |-> TRUE,
                   records |-> <<[exchange |-> "a", priority |-> 30],
                                 [exchange |-> "b", priority |-> 10],
                                 [exchange |-> "c", priority |-> 20]>>])
       = <<[exchange |-> "b", priority |-> 10], [exchange |-> "c", priority |-> 20],
           [exchange |-> "a", priority |-> 30]>>

\* The two dialogues a session can write.
Dialogue(withHelo) ==
  <<Command("EHLO", HeloName)>>
    \o (IF withHelo THEN <<Command("HELO", HeloName)>> ELSE <<>>)
    \o <<Command("MAIL FROM", fromEmail), Command("RCPT TO", email),
         Command("QUIT", "")>>

SameCommand(c, d) == c.verb = d.verb /\ c.arg = d.arg

IsPrefix(p, q) ==
  /\ Len(p) <= Len(q)
  /\ \A i \in 1..Len(p) : SameCommand(p[i], q[i])

SocketOpen == sock \in {"connecting", "connected"}

\* C18: at most one socket is open at any instant: a socket is created only
\* when the call holds none, the call lets go of a socket only when it is
\* destroyed, and it is destroyed when the handshake settles, which is before
\* the next host is dialed, before a retry sleep begins and before the result
\* is returned.
C18_OneSocket ==
  /\ [](/\ outcome # Null => sock = "destroyed"
        /\ pc # "handshake" => sock = "none")
  /\ [][/\ (sock # "none" /\ sock' = "none") => sock = "destroyed"
        /\ sock' = "connecting" => (sock = "none" /\ pc = "dial")
        /\ (pc = "handshake" /\ pc' # "handshake") => ~SocketOpen]_vars

\* The second host of an attempt is being dialed, after the handshake with
\* the first one was rejected.
C18_Witness ==
  /\ pc = "handshake"
  /\ sock = "connecting"
  /\ hostIdx = 2
  /\ Len(dialed) = 2

\* The step the i-th reply of the handshake answers.
StepOfReply(i) ==
  IF i = 1 THEN "CONNECT"
  ELSE IF i = 2 THEN "EHLO"
  ELSE IF replies[2] \in {500, 502}
    THEN (IF i = 3 THEN "HELO" ELSE IF i = 4 THEN "MAIL_FROM" ELSE "RCPT_TO")
  ELSE (IF i = 3 THEN "MAIL_FROM" ELSE "RCPT_TO")

\* The codes that let the dialogue go on after a step before RCPT TO.
GoOnCodes(step) ==
  IF step = "CONNECT" THEN {220}
  ELSE IF step = "EHLO" THEN {250, 500, 502}
  ELSE {250}

\* C19: before RCPT TO, a reply other than the code that lets the dialogue
\* go on ends the session at once: the verdict is blocked with the code
\* received, is_catch_all false, and no command is written for that reply;
\* is_temporary_error is false for a greeting other than 220, also for 4xx
\* such as 421, and is (400 <= code < 500) after EHLO (code not 250, 500,
\* 502), HELO (not 250) and MAIL FROM (not 250).  Any other reply leaves the
\* session open with the next command written.
C19_Blocked ==
  LET n == Len(replies)
  IN  (n >= 1 /\ StepOfReply(n) # "RCPT_TO") =>
        LET step == StepOfReply(n)
            code == replies[n]
        IN  IF code \in GoOnCodes(step)
              THEN /\ outcome = Null
                   /\ sock = "connected"
                   /\ Len(written) = n
              ELSE /\ outcome # Null
                   /\ outcome.kind = "resolved"
                   /\ outcome.value.status = "blocked"
                   /\ outcome.value.smtp_code = code
                   /\ ~outcome.value.is_catch_all
                   /\ outcome.value.is_temporary_error =
                        IF step = "CONNECT" THEN FALSE ELSE (400 <= code /\ code < 500)
                   /\ currentStep = step
                   /\ Len(written) = n - 1
                   /\ sock = "destroyed"

\* A greeting of 421: blocked and not temporary.
C19_Witness ==
  /\ replies = <<421>>
  /\ outcome # Null
  /\ outcome.value.status = "blocked"
  /\ outcome.value.smtp_code = 421
  /\ ~outcome.value.is_temporary_error
  /\ written = <<>>

\* The commands written so far that are HELO.
HeloWrites == {i \in 1..Len(written) : written[i].verb = "HELO"}

\* C20: when EHLO is answered 500 or 502 the session writes HELO, once; when
\* HELO is then answered 250 the session writes MAIL FROM; when HELO is
\* answered anything else, 500 and 502 included, the session ends with the
\* verdict blocked and writes nothing more.
C20_HeloFallback ==
  /\ Cardinality(HeloWrites) <= 1
  /\ (Len(replies) >= 2 /\ replies[1] = 220 /\ replies[2] \in {500, 502}) =>
       /\ HeloWrites = {2}
       /\ written[2] = Command("HELO", HeloName)
       /\ Len(replies) = 2 => (currentStep = "HELO" /\ outcome = Null)
       /\ Len(replies) >= 3 =>
            IF replies[3] = 250
              THEN /\ Len(written) >= 3
                   /\ written[3] = Command("MAIL FROM", fromEmail)
                   /\ Len(replies) = 3 => (currentStep = "MAIL_FROM" /\ outcome = Null)
              ELSE /\ Len(replies) = 3
                   /\ Len(written) = 2
                   /\ currentStep = "HELO"
                   /\ outcome # Null
                   /\ outcome.kind = "resolved"
                   /\ outcome.value.status = "blocked"
                   /\ outcome.value.smtp_code = replies[3]
                   /\ sock = "destroyed"

\* EHLO answered 500, HELO answered 502: blocked after one HELO.
C20_Witness ==
  /\ replies = <<220, 500, 502>>
  /\ HeloWrites = {2}
  /\ Len(written) = 2
  /\ outcome # Null
  /\ outcome.value.status = "blocked"
  /\ outcome.value.smtp_code = 502

\* C17: the result verifyEmail returns is a function of the address, the DNS
\* answer and what the servers send: calls on the same address against the
\* same script return the same result, whatever the random sleeps between
\* their attempts were (the model's results have no time_taken_ms).
C17_Deterministic ==
  Returned => result = verifyEmailResult(email, script)

\* A call that slept twice, for random times, and returned the verdict of
\* its third attempt's second host.
C17_Witness ==
  /\ Returned
  /\ attempt = 2
  /\ hostIdx = 2
  /\ result.status = "valid"
  /\ result.attempts = 3
  /\ script.attempts[1] = <<Refused, Silent>>
  /\ script.attempts[2] = <<Silent, Deferring>>

(***************************************************************************)
(* The reply parser under chunking (StreamSpec)                            *)
(***************************************************************************)
\* The replies the server of the session sends.
Sent == SessionScript.replies

\* The number of bytes the data events have delivered.
Delivered == Len(Concat(Sent)) - Len(wire)

\* The position in the server's bytes of the last byte of its j-th reply.
ReplyEnd(j) == Len(Concat(SubSeq(Sent, 1, j)))

\* The bytes the data event of this step delivers.
Chunk == SubSeq(wire, 1, Len(wire) - Len(wire'))

\* What processResponse parses in this step.
Buffer == responseBuffer \o Chunk

\* A line 'DDD<space>text'.
IsFinalLine(line) == MatchesReplyLine(line) /\ line[4] = " "

\* A line 'DDD-text'.
IsContinuationLine(line) == MatchesReplyLine(line) /\ line[4] = "-"

\* The buffer ends with a CRLF-terminated line 'DDD<space>text'.
EndsWithFinalLine(buffer) ==
  LET lines == SplitCRLF(buffer)
  IN  /\ Len(lines) >= 2
      /\ lines[Len(lines)] = <<>>
      /\ IsFinalLine(lines[Len(lines) - 1])

\* The length of the first reply the lines hold whole, its CRLF included; 0
\* if they hold none.  The last of the lines is what follows the last CRLF.
RECURSIVE FirstReplyEnd(_, _, _)
FirstReplyEnd(lines, i, offset) ==
  IF i >= Len(lines) THEN 0
  ELSE IF IsFinalLine(lines[i]) THEN offset + Len(lines[i]) + 2
  ELSE FirstReplyEnd(lines, i + 1, offset + Len(lines[i]) + 2)

\* The buffer is one whole reply: continuation lines, then a final line, each
\* with its CRLF, and nothing else.
IsWholeReply(buffer) ==
  LET lines == SplitCRLF(buffer)
  IN  /\ EndsWithFinalLine(buffer)
      /\ \A i \in 1..(Len(lines) - 2) : IsContinuationLine(lines[i])

\* The buffer is whole continuation lines and nothing else.
IsContinuationOnly(buffer) ==
  LET lines == SplitCRLF(buffer)
  IN  /\ Len(lines) >= 2
      /\ lines[Len(lines)] = <<>>
      /\ \A i \in 1..(Len(lines) - 1) : IsContinuationLine(lines[i])

\* C21: the client never pipelines: it has written its j-th command only when
\* the data events have delivered the server's j-th reply (the greeting being
\* the first) up to the CRLF of its terminating line, however the bytes are
\* cut into chunks.
C21_NoPipelining ==
  \A j \in 1..Len(Sent) : Len(written) >= j => Delivered >= ReplyEnd(j)

\* C22: the parser never yields a partial reply: a data event makes it yield
\* a reply only if the buffer then ends with a CRLF-terminated line
\* 'DDD<space>text'.
C22_NoPartialReply ==
  [][Len(replies') > Len(replies) => EndsWithFinalLine(Buffer)]_vars

\* C23: when the buffer holds a complete reply the parser yields exactly that
\* reply, with its own code, and the bytes that arrived after its terminating
\* line stay in the buffer.
C23_ExcessKept ==
  [][LET length == FirstReplyEnd(SplitCRLF(Buffer), 1, 0)
     IN  (Chunk # <<>> /\ length > 0) =>
           /\ replies' =
                Append(replies, parseSmtpResponse(SubSeq(Buffer, 1, length)).code)
           /\ sock' = "connected" =>
                responseBuffer' = SubSeq(Buffer, length + 1, Len(Buffer))]_vars

C25_ChunkingIndependent ==
  outcome # Null =>
    LET o == handshakeOutcome("CONNECT", Sent, email, mxRecords[hostIdx].exchange,
                              AttemptNumber(attempt))
    IN  /\ outcome.kind = o.kind
        /\ o.kind = "resolved" =>
             /\ outcome.value.status = o.value.status
             /\ outcome.value.smtp_code = o.value.smtp_code
             /\ outcome.value.is_catch_all = o.value.is_catch_all
             /\ outcome.value.is_temporary_error = o.value.is_temporary_error

(***************************************************************************)
(* Timeouts, end of file, the host loop and the sleeps                     *)
(***************************************************************************)
\* The handshake rejected with a timeout error.
TimedOut ==
  /\ outcome # Null
  /\ outcome.kind = "rejected"
  /\ outcome.error.text = "Connection timeout during "

\* The state the handshake is waiting in: for the greeting, or for the reply
\* to the command it wrote last.
WaitingIn ==
  IF written = <<>> THEN "CONNECT"
  ELSE LET verb == written[Len(written)].verb
       IN  IF verb = "MAIL FROM" THEN "MAIL_FROM"
           ELSE IF verb = "RCPT TO" THEN "RCPT_TO"
           ELSE verb

\* C26: when the timeout fires, in whatever state, the socket is destroyed and
\* the handshake fails with a timeout error that names the state it was
\* waiting in; attemptSMTPVerification takes it for a failure of the host and
\* dials the next one, or fails the attempt if there is none.
C26_TimeoutFailsSession ==
  /\ [](TimedOut => /\ sock = "destroyed"
                    /\ pc = "handshake"
                    /\ outcome.error.detail = <<WaitingIn>>)
  /\ [][TimedOut =>
          IF hostIdx < Len(mxRecords)
            THEN /\ pc' = "dial"
                 /\ hostIdx' = hostIdx + 1
                 /\ UNCHANGED <<attempt, lastResult, result>>
            ELSE /\ pc' \in {"sleeping", "exhausted"}
                 /\ attempt' = attempt + 1
                 /\ lastResult'.status = "unknown"
                 /\ lastResult'.is_temporary_error]_vars

\* The second host of an attempt timed out waiting for the reply to RCPT TO.
C26_Witness ==
  /\ TimedOut
  /\ hostIdx = 2
  /\ Len(dialed) = 2
  /\ outcome.error.detail = <<"RCPT_TO">>
  /\ written[Len(written)].verb = "RCPT TO"

\* Every host the call dials, in every attempt, times out waiting for the
\* reply to MAIL FROM.
EveryHostStalls ==
  /\ Len(mxRecords) > 0
  /\ \A a \in 1..MAX_RETRIES : \A i \in 1..Len(mxRecords) :
       script.attempts[a][i] = Stalling

\* C27: when the result of verifyEmail stems from timeouts, here a timeout
\* during MAIL_FROM on every host in every attempt, its reason records the
\* name of the state in which the timeout occurred.
C27_ReasonNamesState ==
  (Returned /\ EveryHostStalls) => result.reason.detail = <<"MAIL_FROM">>

\* C28: when the server closes the connection, without a socket error, before
\* the handshake has a verdict, the handshake ends as a failure and the
\* verifier goes on: to the next host, to the next attempt or to its return.
C28_EofFailsSession ==
  (sock = "closed") ~> (pc # "handshake")

\* The handshake in progress has settled with a verdict.
HasVerdict == pc = "handshake" /\ outcome # Null /\ outcome.kind = "resolved"

\* The handshake in progress has failed.
HasFailed == pc = "handshake" /\ outcome # Null /\ outcome.kind = "rejected"

\* C29: within an attempt the next MX host is dialed if and only if the
\* handshake with the previous one failed; a handshake that yields a verdict,
\* blocked included, ends the host loop of the attempt, so the hosts after it
\* are not dialed in that attempt.
C29_HostLoop ==
  [][/\ HasVerdict =>
          /\ pc' \in {"returned", "sleeping", "exhausted"}
          /\ hostIdx' = hostIdx
     /\ (HasFailed /\ hostIdx < Len(mxRecords)) =>
          /\ pc' = "dial"
          /\ hostIdx' = hostIdx + 1
          /\ attempt' = attempt
     /\ (pc = "handshake" /\ pc' = "dial") => HasFailed
     /\ Len(dialed') > Len(dialed) =>
          /\ dialed' = SubSeq(mxRecords, 1, hostIdx)
          /\ pc = "dial"]_vars

\* The first of two hosts answered with a blocked verdict and the attempt
\* ended without a dial of the second.
C29_Witness ==
  /\ pc = "sleeping"
  /\ Len(mxRecords) = 2
  /\ hostIdx = 1
  /\ lastOutcome # Null
  /\ lastOutcome.status = "blocked"

\* The backoff before the attempt that follows `failed` failed attempts.
Backoff(failed) == IF failed = 1 THEN 1000 ELSE 3000

\* C30: the attempts are sequential with backoff: the first attempt starts
\* without a sleep; every later attempt starts from exactly one sleep, which
\* begins when the handshake of the attempt before has settled and lasts
\* between 0.7 and 1.3 times 1000 ms (before attempt 2) or 3000 ms (before
\* attempt 3); no socket exists during a sleep.
C30_Backoff ==
  /\ [](pc = "sleeping" =>
          /\ attempt \in 1..(MAX_RETRIES - 1)
          /\ 10 * delay >= 7 * Backoff(attempt)
          /\ 10 * delay <= 13 * Backoff(attempt)
          /\ sock = "none"
          /\ outcome = Null)
  /\ [](pc # "sleeping" => delay = 0)
  /\ [][/\ (pc # "sleeping" /\ pc' = "sleeping") =>
             /\ pc = "handshake"
             /\ outcome # Null
             /\ attempt' = attempt + 1
        /\ (pc = "sleeping" /\ pc' # "sleeping") =>
             /\ pc' = "dial"
             /\ hostIdx' = 1
             /\ attempt' = attempt
        /\ (pc # "dial" /\ pc' = "dial" /\ hostIdx' = 1) =>
             \/ pc = "resolving" /\ attempt = 0
             \/ pc = "sleeping" /\ attempt >= 1
        /\ attempt' # attempt =>
             /\ attempt' = attempt + 1
             /\ pc' \in {"sleeping", "exhausted"}]_vars

\* The sleep before the third attempt, at its shortest.
C30_Witness ==
  /\ pc = "sleeping"
  /\ attempt = 2
  /\ delay = 2100

\* C31: a handshake settles at most once, and when it settles its socket is
\* destroyed and its listeners are detached: from then on no event of that
\* socket writes a command, changes the verdict or settles the handshake
\* again; the only step left is the continuation that takes the settlement.
C31_SettlesOnce ==
  [][/\ (outcome = Null /\ outcome' # Null) =>
          /\ SocketOpen
          /\ sock' = "destroyed"
     /\ outcome # Null =>
          \/ UNCHANGED <<outcome, written, sock, currentStep, responseBuffer>>
          \/ /\ pc = "handshake"
             /\ pc' # "handshake"
             /\ NoSession(sock', currentStep', responseBuffer', outcome', written')]_vars

\* The handshake resolved with the verdict of the reply to RCPT TO: QUIT is
\* the last command written and the socket is destroyed.
C31_Witness ==
  /\ pc = "handshake"
  /\ outcome # Null
  /\ outcome.kind = "resolved"
  /\ sock = "destroyed"
  /\ written # <<>>
  /\ written[Len(written)].verb = "QUIT"
  /\ rcptReply # Null

\* C32: a buffer that grows beyond 64 KiB without holding a complete reply
\* makes the handshake fail, like a socket error, instead of buffering
\* further: more than 64 KiB are buffered only in a handshake that has
\* rejected.
C32_BufferLimit ==
  Len(responseBuffer) > 64 * 1024 =>
    /\ outcome # Null
    /\ outcome.kind = "rejected"

\* C33: when the retry loop of verifyEmail ends without an early return
\* lastResult is not null, every attempt having stored its verdict or the
\* synthetic unknown result, so the fallback result with the reason
\* "Verification failed after all retries" is never returned.
C33_FallbackNeverReturned ==
  /\ pc = "exhausted" => lastResult # Null
  /\ Returned => result.reason.text # "Verification failed after all retries"

\* The loop has ended after a third attempt whose first host answered with a
\* blocked verdict.
C33_Witness ==
  /\ pc = "exhausted"
  /\ attempt = MAX_RETRIES
  /\ lastResult # Null
  /\ lastResult.status = "blocked"
  /\ lastResult.attempts = MAX_RETRIES

=============================================================================
